---- MODULE Spec2Model ----
(***************************************************************************)
(* Model of the WebchatUI React component                                  *)
(* (src/src/webchat-ui/components/WebchatUI.tsx): its derived-state        *)
(* lifecycle (getDerivedStateFromProps, componentDidMount,                 *)
(* componentDidUpdate, componentWillUnmount), the unread-title indicator   *)
(* timer, and the parts of render() that decide which elements appear.     *)
(*                                                                         *)
(* React's scheduling is modelled as follows.  A host re-render with new   *)
(* props runs getDerivedStateFromProps, render and componentDidUpdate in   *)
(* one step.  setState calls made inside componentDidMount and             *)
(* componentDidUpdate are batched into `pending`; React flushes them       *)
(* synchronously, so no host update, timer tick or unmount happens while   *)
(* `pending` is non-empty.  WebchatUI is a PureComponent: a flush whose    *)
(* resulting state is shallow-equal to the current one neither renders     *)
(* nor calls componentDidUpdate.                                           *)
(***************************************************************************)
EXTENDS Naturals, Sequences, FiniteSets, TLC

VARIABLES
    phase,                          \* "constructed" | "mounted" | "unmounted" | "crashed"
    props,                          \* this.props
    state,                          \* this.state
    pending,                        \* batched setState calls not yet flushed
    unreadTitleIndicatorInterval,   \* this.unreadTitleIndicatorInterval
    titleType,                      \* this.titleType
    documentTitle,                  \* document.title
    liveTimers,                     \* intervals registered with the browser
    nextTimerId,                    \* id the next setInterval call returns
    soundPlays,                     \* notificationSound.play() calls of the last step
    everConnected,                  \* history: props.connected was true in some render
    event,                          \* history: the lifecycle event being handled
    calls,                          \* sendMessage call of the last step and the calls it made, in order
    cascade                         \* re-updates run since the last external event

vars == <<phase, props, state, pending, unreadTitleIndicatorInterval, titleType,
          documentTitle, liveTimers, nextTimerId, soundPlays, everConnected, event,
          calls, cascade>>

----------------------------------------------------------------------------
(* Bounds and input domains *)

\* longest unseenMessages list the host passes
MaxUnseen == 2

\* number of setInterval calls the browser grants
MaxTimers == 2

\* re-updates React runs for one event before it gives up
MaxCascade == 5

\* texts a message can carry
Texts == {"Hello", "Bye"}

\* identities (array references) of the unseenMessages prop
ListIds == {"a", "b"}

\* config.settings.colorScheme left out by the host
NoColor == "undefined"

Colors == {"#ff0000", "#0000ff"}

\* config.settings left out by the host: a record without fields
NoSettings == <<>>

\* props.fullscreenMessage: <<>> (not set) or <<message>>
NoMessage == <<>>

\* props.messagePlugins left out by the host
NoPlugins == <<"undefined">>

\* this.unreadTitleIndicatorInterval = null (falsy, like no timer id)
NoTimer == 0

\* window.document.title when the component is constructed
PageTitle == "Shop"

\* config.settings.unreadMessageTitleText
UnreadMessageTitleText == "New Message"

\* the built-in plugins appended at mount
regularMessagePlugin == "regularMessagePlugin"

textInputPlugin == "textInputPlugin"

Messages == [text : Texts]

RECURSIVE SeqsUpTo(_, _)
SeqsUpTo(S, n) ==
    IF n = 0 THEN {<<>>}
    ELSE LET shorter == SeqsUpTo(S, n - 1)
         IN  shorter \cup {Append(s, x) : s \in {t \in shorter : Len(t) = n - 1}, x \in S}

\* an array reference together with its (immutable) contents
UnseenLists == [id : ListIds, items : SeqsUpTo(Messages, MaxUnseen)]

\* the settings records whose fields are drawn from the given sets
SettingsOf(colors, connectionIndicator, titleIndicator, preview, sound, badge, noToggle) ==
    [colorScheme : colors,
     enableConnectionStatusIndicator : connectionIndicator,
     enableUnreadMessageTitleIndicator : titleIndicator,
     enableUnreadMessagePreview : preview,
     enableUnreadMessageSound : sound,
     enableUnreadMessageBadge : badge,
     disableToggleButton : noToggle,
     unreadMessageTitleText : {UnreadMessageTitleText}]

SettingsSet ==
    SettingsOf(Colors \cup {NoColor}, BOOLEAN, BOOLEAN, BOOLEAN, BOOLEAN, BOOLEAN, BOOLEAN)

ConfigSet == [active : BOOLEAN, settings : SettingsSet]

MessagePluginLists ==
    {NoPlugins,
     <<"hostMessagePlugin">>,
     <<"hostMessagePlugin", "hostCatchAllPlugin">>,
     <<"hostCatchAllPlugin", "hostMessagePlugin">>}

FullscreenMessages == {NoMessage} \cup {<<m>> : m \in Messages}

\* arguments a plugin passes to sendMessage
SendArgs == {"hi", "bye"}

InputPluginLists == {<<>>, <<"hostInputPlugin">>}

\* the props records whose fields are drawn from the given sets
PropsOf(unseen, fullscreen, settings, active, open, connected, messagePlugins, inputPlugins) ==
    [unseenMessages : unseen,
     fullscreenMessage : fullscreen,
     config : [active : active, settings : settings],
     open : open,
     connected : connected,
     messagePlugins : messagePlugins,
     inputPlugins : inputPlugins]

PropsSet ==
    PropsOf(UnseenLists, FullscreenMessages, SettingsSet, BOOLEAN, BOOLEAN, BOOLEAN,
            MessagePluginLists, InputPluginLists)

----------------------------------------------------------------------------
(* External helpers *)

\* createWebchatTheme(): the theme keeps the given primary color, or the
\* library default when none is given
DefaultPrimaryColor == "#default"

createWebchatTheme(primaryColor) ==
    [primaryColor |-> IF primaryColor = NoColor THEN DefaultPrimaryColor ELSE primaryColor]

\* getTextFromMessage(message): the textual content of a message
getTextFromMessage(message) == message.text

\* a plugin's match predicate: the regular message plugin and the host's
\* catch-all accept every message, the host's message plugin only greetings
Matches(plugin, message) ==
    \/ plugin = regularMessagePlugin
    \/ plugin = "hostCatchAllPlugin"
    \/ plugin = "hostMessagePlugin" /\ message.text = "Hello"

\* the dispatch result when no plugin accepts the message
NoPlugin == "none"

\* MessagePluginRenderer: scan the list in order, take the first plugin
\* whose match predicate accepts the message
RECURSIVE resolvePlugin(_, _)
resolvePlugin(plugins, message) ==
    IF plugins = <<>> THEN NoPlugin
    ELSE IF Matches(Head(plugins), message) THEN Head(plugins)
    ELSE resolvePlugin(Tail(plugins), message)

\* `${n}` for the list lengths that occur
NumberToString(n) == ToString(n)

----------------------------------------------------------------------------
(* Component state and batched setState calls *)

\* the state field initializer of the class
InitialState ==
    [theme |-> createWebchatTheme(NoColor),
     messagePlugins |-> <<>>,
     inputPlugins |-> <<>>,
     hadConnection |-> FALSE,
     lastUnseenMessageText |-> ""]

\* a partial state handed to setState: each field is <<>> (absent) or <<value>>
NoPartial ==
    [theme |-> <<>>,
     messagePlugins |-> <<>>,
     inputPlugins |-> <<>>,
     hadConnection |-> <<>>,
     lastUnseenMessageText |-> <<>>]

\* two setState calls of one batch: the later call wins per field
Batch(first, second) ==
    [f \in DOMAIN NoPartial |-> IF second[f] # <<>> THEN second[f] ELSE first[f]]

\* the state after React merges a partial state into it
Merge(s, partial) ==
    [f \in DOMAIN InitialState |-> IF partial[f] # <<>> THEN partial[f][1] ELSE s[f]]

\* PureComponent's shallow comparison of the old and the merged state: themes
\* and plugin arrays passed to setState are new objects, booleans and strings
\* compare by value
ShallowDiffers(s, partial) ==
    \/ partial.theme # <<>>
    \/ partial.messagePlugins # <<>>
    \/ partial.inputPlugins # <<>>
    \/ partial.hadConnection # <<>> /\ partial.hadConnection[1] # s.hadConnection
    \/ /\ partial.lastUnseenMessageText # <<>>
       /\ partial.lastUnseenMessageText[1] # s.lastUnseenMessageText

----------------------------------------------------------------------------
(* Lifecycle methods *)

getDerivedStateFromProps(p, s) ==
    LET color == IF p.config.settings = NoSettings
                 THEN NoColor
                 ELSE p.config.settings.colorScheme
    IN  IF color # NoColor /\ color # s.theme.primaryColor
        THEN [s EXCEPT !.theme = createWebchatTheme(color)]
        ELSE s

\* `list || []`
OrEmpty(list) == IF list = NoPlugins THEN <<>> ELSE list

\* variant: the built-in plugins are put in front of the host's
componentDidMountSetState_DefaultFirst(p) ==
    [NoPartial EXCEPT
        !.inputPlugins = <<<<textInputPlugin>> \o OrEmpty(p.inputPlugins)>>,
        !.messagePlugins = <<<<regularMessagePlugin>> \o OrEmpty(p.messagePlugins)>>]

\* the setState call of componentDidMount
componentDidMountSetState(p) ==
    [NoPartial EXCEPT
        !.inputPlugins = <<Append(OrEmpty(p.inputPlugins), textInputPlugin)>>,
        !.messagePlugins = <<Append(OrEmpty(p.messagePlugins), regularMessagePlugin)>>]

\* variant: every update computes a new theme
ThemeSetState_Always(prevProps, p) ==
    [NoPartial EXCEPT !.theme = <<createWebchatTheme(p.config.settings.colorScheme)>>]

\* componentDidUpdate: the theme follows a changed color scheme
ThemeSetState(prevProps, p) ==
    IF p.config.settings.colorScheme # prevProps.config.settings.colorScheme
    THEN [NoPartial EXCEPT !.theme = <<createWebchatTheme(p.config.settings.colorScheme)>>]
    ELSE NoPartial

\* variant: hadConnection follows props.connected
HadConnectionSetState_Follow(prevState, p) ==
    IF prevState.hadConnection # p.connected
    THEN [NoPartial EXCEPT !.hadConnection = <<p.connected>>]
    ELSE NoPartial

\* variant: hadConnection is set on the first update, connected or not
HadConnectionSetState_Eager(prevState, p) ==
    IF ~prevState.hadConnection
    THEN [NoPartial EXCEPT !.hadConnection = <<TRUE>>]
    ELSE NoPartial

\* componentDidUpdate: latch the first connection
HadConnectionSetState(prevState, p) ==
    IF ~prevState.hadConnection /\ p.connected
    THEN [NoPartial EXCEPT !.hadConnection = <<TRUE>>]
    ELSE NoPartial

\* prevProps.unseenMessages !== this.props.unseenMessages
UnseenMessagesChanged(prevProps, p) == prevProps.unseenMessages.id # p.unseenMessages.id

\* variant: the preview shows the first unseen message
LastUnseenMessageText_First(unseenMessages) ==
    IF Len(unseenMessages) > 0
    THEN getTextFromMessage(unseenMessages[1])
    ELSE ""

\* the text shown in the unseen message preview
LastUnseenMessageText(unseenMessages) ==
    IF Len(unseenMessages) > 0
    THEN getTextFromMessage(unseenMessages[Len(unseenMessages)])
    ELSE ""

\* componentDidUpdate: update the "unseen message preview" text
PreviewSetState(prevProps, p) ==
    IF /\ UnseenMessagesChanged(prevProps, p)
       /\ p.config.settings.enableUnreadMessagePreview
    THEN [NoPartial EXCEPT
            !.lastUnseenMessageText = <<LastUnseenMessageText(p.unseenMessages.items)>>]
    ELSE NoPartial

\* variant: an update with other host plugin lists merges them again
componentDidUpdateSetState_Remerge(prevProps, prevState, p) ==
    Batch(Batch(Batch(ThemeSetState(prevProps, p), HadConnectionSetState(prevState, p)),
                PreviewSetState(prevProps, p)),
          IF \/ p.messagePlugins # prevProps.messagePlugins
             \/ p.inputPlugins # prevProps.inputPlugins
          THEN componentDidMountSetState(p)
          ELSE NoPartial)

\* the setState calls of one componentDidUpdate run, batched
componentDidUpdateSetState(prevProps, prevState, p) ==
    Batch(Batch(ThemeSetState(prevProps, p), HadConnectionSetState(prevState, p)),
          PreviewSetState(prevProps, p))

\* variant: the sound is played in every update that finds unseen messages
NotificationSoundPlays_EveryUpdate(prevProps, p) ==
    IF /\ Len(p.unseenMessages.items) > 0
       /\ p.config.settings.enableUnreadMessageSound
    THEN 1
    ELSE 0

\* componentDidUpdate: number of notificationSound.play() calls
NotificationSoundPlays(prevProps, p) ==
    IF /\ UnseenMessagesChanged(prevProps, p)
       /\ Len(p.unseenMessages.items) > 0
       /\ p.config.settings.enableUnreadMessageSound
    THEN 1
    ELSE 0

\* variant: the flag going on never starts the indicator
TitleIndicatorSwitchedOn_Never(prevProps, p) == FALSE

\* componentDidUpdate: the title indicator flag went from off to on
TitleIndicatorSwitchedOn(prevProps, p) ==
    /\ p.config.settings.enableUnreadMessageTitleIndicator
    /\ p.config.settings.enableUnreadMessageTitleIndicator
         # prevProps.config.settings.enableUnreadMessageTitleIndicator

----------------------------------------------------------------------------
(* Title indicator *)

originalTitle == PageTitle

\* `(${unseenMessages.length}) ${unreadMessageTitleText}`
UnreadTitle(count, label) == "(" \o NumberToString(count) \o ") " \o label

\* variant: no start-check
TimerRegistered_Never(interval) == FALSE

\* the start-check of initializeTitleIndicator
TimerRegistered(interval) == interval # NoTimer

\* initializeTitleIndicator, called when `call` holds
InitializeTitleIndicator(call) ==
    IF call /\ ~TimerRegistered(unreadTitleIndicatorInterval)
    THEN /\ nextTimerId <= MaxTimers
         /\ unreadTitleIndicatorInterval' = nextTimerId
         /\ liveTimers' = liveTimers \cup {nextTimerId}
         /\ nextTimerId' = nextTimerId + 1
    ELSE UNCHANGED <<unreadTitleIndicatorInterval, liveTimers, nextTimerId>>

\* variant: the unread title is written without looking at the count
toggleTitleIndicator_Unchecked(type, title, p) ==
    IF type = "unread"
    THEN [title |-> originalTitle, type |-> "original"]
    ELSE [title |-> UnreadTitle(Len(p.unseenMessages.items),
                                p.config.settings.unreadMessageTitleText),
          type |-> "unread"]

\* variant: the unread title shows the index of the last unseen message
toggleTitleIndicator_LastIndex(type, title, p) ==
    IF type = "unread"
    THEN [title |-> originalTitle, type |-> "original"]
    ELSE IF Len(p.unseenMessages.items) > 0
         THEN [title |-> UnreadTitle(Len(p.unseenMessages.items) - 1,
                                     p.config.settings.unreadMessageTitleText),
               type |-> "unread"]
         ELSE [title |-> title, type |-> type]

\* toggleTitleIndicator: the title and phase it leaves behind
toggleTitleIndicator(type, title, p) ==
    IF type = "unread"
    THEN [title |-> originalTitle, type |-> "original"]
    ELSE IF Len(p.unseenMessages.items) > 0
         THEN [title |-> UnreadTitle(Len(p.unseenMessages.items),
                                     p.config.settings.unreadMessageTitleText),
               type |-> "unread"]
         ELSE [title |-> title, type |-> type]

\* variant: the interval is not cleared
TimersAfterUnmount_Leak(interval, timers) == timers

\* componentWillUnmount: the timers left registered with the browser
TimersAfterUnmount(interval, timers) ==
    IF TimerRegistered(interval) THEN timers \ {interval} ELSE timers

----------------------------------------------------------------------------
(* render *)

\* const showDisconnectOverlay = ...
showDisconnectOverlay(p, s) ==
    /\ p.config.settings.enableConnectionStatusIndicator
    /\ ~p.connected
    /\ s.hadConnection

\* render() puts a DisconnectOverlay into the tree
DisconnectOverlayRendered(p, s) ==
    /\ p.config.active
    /\ p.open
    /\ showDisconnectOverlay(p, s)

\* render() destructures config.settings before anything else: with the
\* settings block absent that is a TypeError
RenderThrows(p) == p.config.settings = NoSettings

renderRegularLayout == {"Header", "History", "Input"}

renderFullscreenMessageLayout == {"FullScreenMessage"}

\* variant: the fullscreen view is put on top of the regular layout
Layout_Stacked(p) ==
    IF p.fullscreenMessage = NoMessage
    THEN renderRegularLayout
    ELSE renderRegularLayout \cup renderFullscreenMessageLayout

\* !fullscreenMessage ? renderRegularLayout() : renderFullscreenMessageLayout()
Layout(p) ==
    IF p.fullscreenMessage = NoMessage
    THEN renderRegularLayout
    ELSE renderFullscreenMessageLayout

\* the teaser and toggle button next to the chat window
ToggleArea(p, s) ==
    IF p.config.settings.disableToggleButton
    THEN {}
    ELSE (IF s.lastUnseenMessageText # "" THEN {"MessageTeaser"} ELSE {})
         \cup {"FAB"}
         \cup (IF p.config.settings.enableUnreadMessageBadge THEN {"Badge"} ELSE {})

\* render(): the elements of the tree it returns
Render(p, s) ==
    IF ~p.config.active
    THEN {}
    ELSE (IF p.open
          THEN {"WebchatRoot"}
               \cup Layout(p)
               \cup (IF showDisconnectOverlay(p, s) THEN {"DisconnectOverlay"} ELSE {})
          ELSE {})
         \cup ToggleArea(p, s)

\* this.history.current: the ref of the History element, when one is rendered
HistoryCurrent(p, s) == "History" \in Render(p, s)

\* variant: the host callback is called before the scroll
sendMessageCalls_DelegateFirst(args, historyCurrent) ==
    <<[call |-> "onSendMessage", args |-> args]>>
    \o (IF historyCurrent THEN <<[call |-> "scrollToBottom", args |-> ""]>> ELSE <<>>)

\* sendMessage(...args): the calls it makes, in order
sendMessageCalls(args, historyCurrent) ==
    (IF historyCurrent THEN <<[call |-> "scrollToBottom", args |-> ""]>> ELSE <<>>)
    \o <<[call |-> "onSendMessage", args |-> args]>>

\* the plugin lists render() hands to the message and input renderers
RenderedMessagePlugins(s) == s.messagePlugins

RenderedInputPlugins(s) == s.inputPlugins

----------------------------------------------------------------------------
(* Actions *)

Idle == pending = NoPartial

\* what holds of every instance right after its constructor ran
Constructed ==
    /\ phase = "constructed"
    /\ state = InitialState
    /\ pending = NoPartial
    /\ unreadTitleIndicatorInterval = NoTimer
    /\ titleType = "original"
    /\ documentTitle = PageTitle
    /\ liveTimers = {}
    /\ nextTimerId = 1
    /\ soundPlays = 0
    /\ everConnected = FALSE
    /\ event = "constructor"
    /\ calls = <<>>
    /\ cascade = 0

\* the notification features: the host varies the unseen messages, the
\* connection, the color scheme and the three notification flags, with the
\* widget open and active
Init ==
    /\ Constructed
    /\ props \in PropsOf(UnseenLists, {NoMessage},
                         SettingsOf(Colors \cup {NoColor}, {TRUE}, BOOLEAN, BOOLEAN, BOOLEAN,
                                    {FALSE}, {FALSE}),
                         {TRUE}, {TRUE}, BOOLEAN, {NoPlugins}, {<<>>})

\* a render that throws: React takes the tree down, which runs
\* componentWillUnmount on an instance that was mounted
Crash(name, p) ==
    /\ phase' = "crashed"
    /\ event' = name
    /\ props' = p
    /\ state' = getDerivedStateFromProps(p, state)
    /\ liveTimers' = TimersAfterUnmount(unreadTitleIndicatorInterval, liveTimers)
    /\ unreadTitleIndicatorInterval' = NoTimer
    /\ soundPlays' = 0
    /\ calls' = <<>>
    /\ cascade' = 0
    /\ UNCHANGED <<pending, titleType, documentTitle, nextTimerId, everConnected>>

\* first render and componentDidMount
Mount ==
    /\ phase = "constructed"
    /\ IF RenderThrows(props)
       THEN Crash("Mount", props)
       ELSE /\ phase' = "mounted"
            /\ state' = getDerivedStateFromProps(props, state)
            /\ pending' = componentDidMountSetState(props)
            /\ InitializeTitleIndicator(props.config.settings.enableUnreadMessageTitleIndicator)
            /\ soundPlays' = 0
            /\ everConnected' = props.connected
            /\ event' = "Mount"
            /\ calls' = <<>>
            /\ cascade' = 0
            /\ UNCHANGED <<props, titleType, documentTitle>>

\* render with props p, then componentDidUpdate(prevProps, prevState)
DidUpdate(prevProps, prevState, p) ==
    /\ pending' = componentDidUpdateSetState(prevProps, prevState, p)
    /\ soundPlays' = NotificationSoundPlays(prevProps, p)
    /\ InitializeTitleIndicator(TitleIndicatorSwitchedOn(prevProps, p))
    /\ everConnected' = (everConnected \/ p.connected)
    /\ calls' = <<>>

\* the host re-renders the component with props p (event `name`)
Update(name, p) ==
    /\ phase = "mounted"
    /\ Idle
    /\ IF RenderThrows(p)
       THEN Crash(name, p)
       ELSE /\ event' = name
            /\ props' = p
            /\ state' = getDerivedStateFromProps(p, state)
            /\ DidUpdate(props, state, p)
            /\ cascade' = 0
            /\ UNCHANGED <<phase, titleType, documentTitle>>

SetUnseenMessages ==
    \E l \in UnseenLists :
        /\ l.id # props.unseenMessages.id
        /\ Update("SetUnseenMessages", [props EXCEPT !.unseenMessages = l])

SetConnected == Update("SetConnected", [props EXCEPT !.connected = ~@])

SetOpen == Update("SetOpen", [props EXCEPT !.open = ~@])

SetActive == Update("SetActive", [props EXCEPT !.config.active = ~@])

SetColorScheme ==
    \E c \in Colors \cup {NoColor} :
        /\ c # props.config.settings.colorScheme
        /\ Update("SetColorScheme", [props EXCEPT !.config.settings.colorScheme = c])

SetConnectionStatusIndicator ==
    Update("SetConnectionStatusIndicator", [props EXCEPT !.config.settings.enableConnectionStatusIndicator = ~@])

SetTitleIndicator ==
    Update("SetTitleIndicator", [props EXCEPT !.config.settings.enableUnreadMessageTitleIndicator = ~@])

SetPreview ==
    Update("SetPreview", [props EXCEPT !.config.settings.enableUnreadMessagePreview = ~@])

SetSound ==
    Update("SetSound", [props EXCEPT !.config.settings.enableUnreadMessageSound = ~@])

SetMessagePlugins ==
    \E m \in MessagePluginLists :
        /\ m # props.messagePlugins
        /\ Update("SetMessagePlugins", [props EXCEPT !.messagePlugins = m])

SetInputPlugins ==
    \E i \in InputPluginLists :
        /\ i # props.inputPlugins
        /\ Update("SetInputPlugins", [props EXCEPT !.inputPlugins = i])

SetFullscreenMessage ==
    \E f \in FullscreenMessages :
        /\ f # props.fullscreenMessage
        /\ Update("SetFullscreenMessage", [props EXCEPT !.fullscreenMessage = f])

SetDisableToggleButton ==
    Update("SetDisableToggleButton", [props EXCEPT !.config.settings.disableToggleButton = ~@])

SetBadge ==
    Update("SetBadge", [props EXCEPT !.config.settings.enableUnreadMessageBadge = ~@])

\* the host passes a config without a settings block
DropSettings ==
    /\ props.config.settings # NoSettings
    /\ Update("DropSettings", [props EXCEPT !.config.settings = NoSettings])

\* a re-render in which none of the modelled props changed (e.g. new messages)
Rerender == Update("Rerender", props)

\* React flushes the batched setState calls
FlushSetState ==
    /\ phase = "mounted"
    /\ ~Idle
    /\ LET merged == Merge(state, pending)
           derived == getDerivedStateFromProps(props, merged)
       IN  IF ShallowDiffers(state, pending) \/ derived # merged
           THEN /\ cascade < MaxCascade
                /\ cascade' = cascade + 1
                /\ state' = derived
                /\ DidUpdate(props, state, props)
           ELSE /\ cascade' = 0
                /\ state' = merged
                /\ pending' = NoPartial
                /\ soundPlays' = 0
                /\ calls' = <<>>
                /\ UNCHANGED <<unreadTitleIndicatorInterval, liveTimers, nextTimerId,
                               everConnected>>
    /\ UNCHANGED <<phase, props, titleType, documentTitle, event>>

\* a registered interval fires toggleTitleIndicator
Tick ==
    \E t \in liveTimers :
        /\ Idle
        /\ LET r == toggleTitleIndicator(titleType, documentTitle, props)
           IN  /\ documentTitle' = r.title
               /\ titleType' = r.type
        /\ soundPlays' = 0
        /\ event' = "Tick"
        /\ calls' = <<>>
        /\ UNCHANGED <<phase, props, state, pending, unreadTitleIndicatorInterval,
                       liveTimers, nextTimerId, everConnected, cascade>>

Unmount ==
    /\ phase = "mounted"
    /\ Idle
    /\ phase' = "unmounted"
    /\ liveTimers' = TimersAfterUnmount(unreadTitleIndicatorInterval, liveTimers)
    /\ unreadTitleIndicatorInterval' = NoTimer
    /\ soundPlays' = 0
    /\ event' = "Unmount"
    /\ calls' = <<>>
    /\ UNCHANGED <<props, state, pending, titleType, documentTitle, nextTimerId,
                   everConnected, cascade>>

\* a rendered plugin calls this.sendMessage(args)
SendMessage ==
    \E args \in SendArgs :
        /\ phase = "mounted"
        /\ Idle
        /\ calls' = <<[call |-> "sendMessage", args |-> args]>>
                        \o sendMessageCalls(args, HistoryCurrent(props, state))
        /\ event' = "sendMessage"
        /\ soundPlays' = 0
        /\ UNCHANGED <<phase, props, state, pending, unreadTitleIndicatorInterval,
                       titleType, documentTitle, liveTimers, nextTimerId, everConnected,
                       cascade>>

Next ==
    \/ Mount
    \/ SetUnseenMessages
    \/ SetConnected
    \/ SetColorScheme
    \/ SetTitleIndicator
    \/ SetPreview
    \/ SetSound
    \/ Rerender
    \/ FlushSetState
    \/ Tick
    \/ Unmount

Spec == Init /\ [][Next]_vars

\* the disconnect overlay: the host varies the connection, the overlay flag,
\* open and active, with one unseen message and the notification flags off
InitOverlay ==
    /\ Constructed
    /\ props \in PropsOf({[id |-> "a", items |-> <<[text |-> "Hello"]>>]}, {NoMessage},
                         SettingsOf(Colors \cup {NoColor}, BOOLEAN, {FALSE}, {FALSE}, {FALSE},
                                    {FALSE}, {FALSE}),
                         BOOLEAN, BOOLEAN, BOOLEAN, {NoPlugins}, {<<>>})

NextOverlay ==
    \/ Mount
    \/ SetConnected
    \/ SetConnectionStatusIndicator
    \/ SetOpen
    \/ SetActive
    \/ SetColorScheme
    \/ Rerender
    \/ FlushSetState
    \/ Unmount

SpecOverlay == InitOverlay /\ [][NextOverlay]_vars

\* the plugin lists: the host varies its plugin lists, the connection and the
\* unseen messages, with the preview on
InitPlugins ==
    /\ Constructed
    /\ props \in PropsOf(UnseenLists, {NoMessage},
                         SettingsOf({NoColor}, {TRUE}, {FALSE}, {TRUE}, {FALSE},
                                    {FALSE}, {FALSE}),
                         {TRUE}, {TRUE}, BOOLEAN, MessagePluginLists, InputPluginLists)

NextPlugins ==
    \/ Mount
    \/ SetMessagePlugins
    \/ SetInputPlugins
    \/ SetUnseenMessages
    \/ SetConnected
    \/ Rerender
    \/ FlushSetState
    \/ Unmount

SpecPlugins == InitPlugins /\ [][NextPlugins]_vars

\* optional configuration: the host may leave out the settings block, at mount
\* or in a later update, and every optional feature flag is off
InitSettings ==
    /\ Constructed
    /\ props \in PropsOf(UnseenLists, {NoMessage},
                         SettingsOf({NoColor}, {FALSE}, {FALSE}, {FALSE}, {FALSE},
                                    BOOLEAN, BOOLEAN)
                            \cup {NoSettings},
                         {TRUE}, BOOLEAN, BOOLEAN, {NoPlugins}, {<<>>})

NextSettings ==
    \/ Mount
    \/ DropSettings
    \/ SetBadge
    \/ SetDisableToggleButton
    \/ SetUnseenMessages
    \/ SetConnected
    \/ SetOpen
    \/ Rerender
    \/ FlushSetState
    \/ Unmount

SpecSettings == InitSettings /\ [][NextSettings]_vars

\* the layouts: the host varies open, active, the fullscreen message, the
\* toggle button and the unseen messages, with the preview on, and plugins
\* send messages
InitLayout ==
    /\ Constructed
    /\ props \in PropsOf(UnseenLists, FullscreenMessages,
                         SettingsOf({NoColor}, {TRUE}, {FALSE}, {TRUE}, {FALSE},
                                    {FALSE}, BOOLEAN),
                         BOOLEAN, BOOLEAN, {TRUE}, {NoPlugins}, {<<>>})

NextLayout ==
    \/ Mount
    \/ SetOpen
    \/ SetActive
    \/ SetFullscreenMessage
    \/ SetDisableToggleButton
    \/ SetUnseenMessages
    \/ Rerender
    \/ FlushSetState
    \/ SendMessage
    \/ Unmount

SpecLayout == InitLayout /\ [][NextLayout]_vars

----------------------------------------------------------------------------
(* Properties *)

Settings == props.config.settings

UnseenCount == Len(props.unseenMessages.items)

\* the titles the indicator writes in its unread phase
UnreadTitles == {UnreadTitle(n, UnreadMessageTitleText) : n \in 0..(MaxUnseen + 1)}

\* C1: hadConnection is a one-way latch: no step of the component takes it
\* from true back to false, however props.connected toggles afterwards.
HadConnectionIsLatch == [][state.hadConnection => state'.hadConnection]_vars

\* hadConnection is still true after the connection was lost again
HadConnectionIsLatch_Witness ==
    /\ phase = "mounted"
    /\ Idle
    /\ event = "SetConnected"
    /\ ~props.connected
    /\ state.hadConnection

\* C2: at most one title-indicator interval is registered at any time, and
\* the registered one is the one the component holds.
AtMostOneTimer ==
    /\ Cardinality(liveTimers) <= 1
    /\ liveTimers \subseteq {unreadTitleIndicatorInterval}

\* the flag is switched on again while the interval of an earlier switch-on is
\* registered and has already ticked
AtMostOneTimer_Witness ==
    /\ event = "SetTitleIndicator"
    /\ Settings.enableUnreadMessageTitleIndicator
    /\ titleType = "unread"
    /\ liveTimers = {unreadTitleIndicatorInterval}

\* C3: once componentWillUnmount has run no interval is registered, and no
\* later step changes the document title or the blink phase.
NoTitleWritesAfterUnmount ==
    /\ [](phase = "unmounted" => liveTimers = {})
    /\ [][phase = "unmounted" =>
            /\ documentTitle' = documentTitle
            /\ titleType' = titleType]_vars

\* unmounted in the unread phase of a blink whose interval had been started
NoTitleWritesAfterUnmount_Witness ==
    /\ phase = "unmounted"
    /\ nextTimerId > 1
    /\ titleType = "unread"
    /\ documentTitle \in UnreadTitles
    /\ UnseenCount > 0

\* C4 as stated: whenever the title is in the unread format, its count is the
\* current length of props.unseenMessages.
TitleCountIsCurrent ==
    documentTitle \in UnreadTitles
        => documentTitle = UnreadTitle(UnseenCount, Settings.unreadMessageTitleText)

\* C4 amended: a tick that writes the unread format writes the length that
\* props.unseenMessages has at that tick, which is positive; between ticks the
\* title keeps the count of the last tick.
TitleCountIsCurrentAtTick ==
    [][documentTitle' # documentTitle /\ documentTitle' \in UnreadTitles =>
            /\ event' = "Tick"
            /\ UnseenCount > 0
            /\ documentTitle' = UnreadTitle(UnseenCount, Settings.unreadMessageTitleText)
            /\ props' = props]_vars

\* a tick has just written the count of a two-element list
TitleCountIsCurrentAtTick_Witness ==
    /\ event = "Tick"
    /\ UnseenCount = 2
    /\ documentTitle = UnreadTitle(2, Settings.unreadMessageTitleText)

\* C5: a tick in the original phase that finds no unseen messages leaves the
\* original title and the original phase, and no title ever shows count 0.
ZeroCountKeepsOriginalTitle ==
    /\ [](documentTitle # UnreadTitle(0, UnreadMessageTitleText))
    /\ [][event' = "Tick" /\ titleType = "original" /\ UnseenCount = 0 =>
            /\ documentTitle' = originalTitle
            /\ titleType' = "original"]_vars
    /\ [](titleType = "original" => documentTitle = originalTitle)

\* a tick has run with no unseen messages left: the title is the original one
\* and the interval is still registered for the next tick
ZeroCountKeepsOriginalTitle_Witness ==
    /\ event = "Tick"
    /\ phase = "mounted"
    /\ UnseenCount = 0
    /\ titleType = "original"
    /\ documentTitle = originalTitle
    /\ liveTimers # {}

\* C6 as stated: with enableUnreadMessagePreview false the preview text is
\* empty.
PreviewTextEmptyWhenDisabled ==
    ~Settings.enableUnreadMessagePreview => state.lastUnseenMessageText = ""

\* C7: with the preview on, once an update with a new unseenMessages list has
\* settled the preview text is the text of the list's last message ("" for an
\* empty list); steps of any other event leave the preview text alone.
PreviewTextIsLastUnseen ==
    /\ [](/\ phase = "mounted"
          /\ Idle
          /\ event = "SetUnseenMessages"
          /\ Settings.enableUnreadMessagePreview
          => state.lastUnseenMessageText =
                IF UnseenCount = 0
                THEN ""
                ELSE props.unseenMessages.items[UnseenCount].text)
    /\ [][event' # "SetUnseenMessages" =>
            state'.lastUnseenMessageText = state.lastUnseenMessageText]_vars

\* a settled update to a list of two different texts
PreviewTextIsLastUnseen_Witness ==
    /\ phase = "mounted"
    /\ Idle
    /\ event = "SetUnseenMessages"
    /\ Settings.enableUnreadMessagePreview
    /\ UnseenCount = 2
    /\ props.unseenMessages.items[1].text # props.unseenMessages.items[2].text
    /\ state.lastUnseenMessageText = props.unseenMessages.items[2].text

\* C8: a step plays the notification sound once if it is an update that brings
\* a new, non-empty unseenMessages list while enableUnreadMessageSound is on,
\* and not at all otherwise (follow-up updates of setState included).
SoundOncePerUnseenChange ==
    [][soundPlays' =
            IF /\ props'.unseenMessages.id # props.unseenMessages.id
               /\ Len(props'.unseenMessages.items) > 0
               /\ props'.config.settings.enableUnreadMessageSound
            THEN 1
            ELSE 0]_vars

\* the sound was played once for a list of two, and the follow-up update of
\* the preview text is still to come
SoundOncePerUnseenChange_Witness ==
    /\ soundPlays = 1
    /\ UnseenCount = 2
    /\ pending.lastUnseenMessageText # <<>>

\* C9: the disconnect overlay is rendered only after props.connected has been
\* true in some render, and with the indicator on, the widget open and the
\* config active it is rendered as soon as the connection is lost.
OverlayOnlyAfterConnection ==
    /\ [](phase = "mounted" /\ DisconnectOverlayRendered(props, state) => everConnected)
    /\ [][/\ phase = "mounted"
          /\ props.connected
          /\ ~props'.connected
          /\ props'.open
          /\ props'.config.active
          /\ props'.config.settings.enableConnectionStatusIndicator
          => DisconnectOverlayRendered(props', state')]_vars

\* connected went true and then false: the overlay is rendered
OverlayOnlyAfterConnection_Witness ==
    /\ phase = "mounted"
    /\ event = "SetConnected"
    /\ everConnected
    /\ DisconnectOverlayRendered(props, state)

\* C10 as stated: in every state in which the component is rendered, both
\* plugin lists end with their built-in default.
PluginListsEndWithDefault ==
    phase = "mounted" =>
        /\ RenderedMessagePlugins(state) # <<>>
        /\ RenderedMessagePlugins(state)[Len(RenderedMessagePlugins(state))]
             = regularMessagePlugin
        /\ RenderedInputPlugins(state) # <<>>
        /\ RenderedInputPlugins(state)[Len(RenderedInputPlugins(state))]
             = textInputPlugin

\* C11: once the plugins are merged the list is the host's plugins in their
\* order followed by the regular message plugin, and for every message the
\* plugin dispatched from it is the earliest entry that accepts the message:
\* never none, and the default only if no host plugin accepts the message.
DispatchIsFirstMatch ==
    phase = "mounted" /\ RenderedMessagePlugins(state) # <<>> =>
        LET list == RenderedMessagePlugins(state)
        IN  /\ event = "Mount" =>
                list = OrEmpty(props.messagePlugins) \o <<regularMessagePlugin>>
            /\ \A m \in Messages :
                LET chosen == resolvePlugin(list, m)
                IN  /\ chosen # NoPlugin
                    /\ \E i \in 1..Len(list) :
                            /\ list[i] = chosen
                            /\ Matches(list[i], m)
                            /\ \A j \in 1..(i - 1) : ~Matches(list[j], m)
                    /\ (\E i \in 1..(Len(list) - 1) : Matches(list[i], m))
                            => chosen # regularMessagePlugin

\* two host plugins were merged and the first of them wins a greeting, while
\* the other message goes to the host's catch-all
DispatchIsFirstMatch_Witness ==
    /\ phase = "mounted"
    /\ Idle
    /\ RenderedMessagePlugins(state)
         = <<"hostMessagePlugin", "hostCatchAllPlugin", regularMessagePlugin>>
    /\ resolvePlugin(RenderedMessagePlugins(state), [text |-> "Hello"]) = "hostMessagePlugin"
    /\ resolvePlugin(RenderedMessagePlugins(state), [text |-> "Bye"]) = "hostCatchAllPlugin"

\* C12: the plugin lists are merged once: after the state update of
\* componentDidMount no step changes state.messagePlugins or
\* state.inputPlugins, and no later update asks for a new merge.
PluginsMergedOnce ==
    /\ [][state.messagePlugins # <<>> =>
            /\ state'.messagePlugins = state.messagePlugins
            /\ state'.inputPlugins = state.inputPlugins]_vars
    /\ [][event' # "Mount" =>
            /\ pending'.messagePlugins = <<>>
            /\ pending'.inputPlugins = <<>>]_vars

\* the host has passed other plugin lists after mount and the state still
\* holds the lists merged at mount
PluginsMergedOnce_Witness ==
    /\ phase = "mounted"
    /\ Idle
    /\ event = "SetMessagePlugins"
    /\ state.messagePlugins # <<>>
    /\ state.messagePlugins # OrEmpty(props.messagePlugins) \o <<regularMessagePlugin>>

\* C13 as stated: a config without a settings block never takes the component
\* to an error state: mount and every update complete.
NoCrashOnMissingSettings == phase # "crashed"

\* C14: with the widget open and the config active every render shows exactly
\* one of the two layouts: the fullscreen view iff fullscreenMessage is set
\* (then without header, history and input), the regular layout otherwise;
\* the choice does not depend on the component's state, and an update that
\* clears fullscreenMessage renders the regular layout again.
LayoutsMutuallyExclusive ==
    /\ [](phase = "mounted" /\ props.open /\ props.config.active =>
            LET tree == Render(props, state)
                layouts == renderRegularLayout \cup renderFullscreenMessageLayout
            IN  /\ (renderFullscreenMessageLayout \subseteq tree)
                        <=> (props.fullscreenMessage # NoMessage)
                /\ (renderRegularLayout \subseteq tree)
                        <=> (props.fullscreenMessage = NoMessage)
                /\ props.fullscreenMessage # NoMessage
                        => tree \cap renderRegularLayout = {}
                /\ props.fullscreenMessage = NoMessage
                        => tree \cap renderFullscreenMessageLayout = {}
                /\ tree \cap layouts = Render(props, InitialState) \cap layouts)
    /\ [][/\ phase' = "mounted"
          /\ props.fullscreenMessage # NoMessage
          /\ props'.fullscreenMessage = NoMessage
          /\ props'.open
          /\ props'.config.active
          => /\ renderRegularLayout \subseteq Render(props', state')
             /\ Render(props', state') \cap renderFullscreenMessageLayout = {}]_vars

\* the host has set and then cleared the fullscreen message: the regular
\* layout is back
LayoutsMutuallyExclusive_Witness ==
    /\ phase = "mounted"
    /\ Idle
    /\ event = "SetFullscreenMessage"
    /\ props.fullscreenMessage = NoMessage
    /\ props.open
    /\ props.config.active
    /\ renderRegularLayout \subseteq Render(props, state)

\* C15 as stated: the teaser is rendered only when the widget is closed: no
\* render with open = true contains the teaser, whatever the preview text is.
TeaserOnlyWhenClosed ==
    phase = "mounted" /\ props.open => "MessageTeaser" \notin Render(props, state)

\* C16: componentDidUpdate asks for a new theme only in an update whose
\* colorScheme differs from the previous one; the steps of every other update
\* leave state.theme alone; and once an update to a set colorScheme has
\* settled, state.theme is the theme of that color.
ThemeFollowsColorScheme ==
    /\ [][pending'.theme # <<>> =>
            props'.config.settings.colorScheme # props.config.settings.colorScheme]_vars
    /\ [][\/ event' \notin {"Mount", "SetColorScheme"}
          \/ /\ phase = "mounted"
             /\ props' # props
             /\ props'.config.settings.colorScheme = props.config.settings.colorScheme
          => state'.theme = state.theme]_vars
    /\ [](/\ phase = "mounted"
          /\ Idle
          /\ event = "SetColorScheme"
          /\ Settings.colorScheme # NoColor
          => /\ state.theme = createWebchatTheme(Settings.colorScheme)
             /\ state.theme.primaryColor = Settings.colorScheme)

\* an update to a set color has settled on the theme of that color
ThemeFollowsColorScheme_Witness ==
    /\ phase = "mounted"
    /\ Idle
    /\ event = "SetColorScheme"
    /\ Settings.colorScheme = "#0000ff"
    /\ state.theme.primaryColor = "#0000ff"

\* C17: every sendMessage call makes exactly one onSendMessage call, with the
\* arguments it was given; if the history scroller exists it makes one
\* scrollToBottom call before that, and otherwise no scrollToBottom call.
SendMessageDelegatesOnce ==
    [][event' = "sendMessage" =>
            LET made == Tail(calls')
                delegations == {i \in DOMAIN made : made[i].call = "onSendMessage"}
                scrolls == {i \in DOMAIN made : made[i].call = "scrollToBottom"}
            IN  /\ calls'[1].call = "sendMessage"
                /\ Cardinality(delegations) = 1
                /\ \A i \in delegations : made[i].args = calls'[1].args
                /\ Cardinality(scrolls) = IF HistoryCurrent(props, state) THEN 1 ELSE 0
                /\ \A i \in scrolls : \A j \in delegations : i < j
                /\ DOMAIN made = delegations \cup scrolls
                /\ ~(props.open /\ props.config.active /\ props.fullscreenMessage = NoMessage)
                        => made = <<[call |-> "onSendMessage", args |-> calls'[1].args]>>]_vars

\* a message was sent from the regular layout: scroll, then delegation
SendMessageDelegatesOnce_Witness ==
    /\ event = "sendMessage"
    /\ HistoryCurrent(props, state)
    /\ calls = <<[call |-> "sendMessage", args |-> "bye"],
                 [call |-> "scrollToBottom", args |-> ""],
                 [call |-> "onSendMessage", args |-> "bye"]>>

\* C18 as stated: the document title is written only while the title
\* indicator is enabled: with enableUnreadMessageTitleIndicator off, no step
\* (no timer tick in particular) changes the document title.
NoTitleWritesWhileDisabled ==
    [][phase = "mounted" /\ ~Settings.enableUnreadMessageTitleIndicator =>
            documentTitle' = documentTitle]_vars

\* C19: whenever the component is mounted, its updates have settled and the
\* title indicator flag is on, the interval the component holds is registered.
TimerLiveWhileEnabled ==
    phase = "mounted" /\ Idle /\ Settings.enableUnreadMessageTitleIndicator =>
        /\ TimerRegistered(unreadTitleIndicatorInterval)
        /\ unreadTitleIndicatorInterval \in liveTimers

\* the flag was off at mount and was switched on by a later update, which
\* started the first interval
TimerLiveWhileEnabled_Witness ==
    /\ phase = "mounted"
    /\ Idle
    /\ event = "SetTitleIndicator"
    /\ Settings.enableUnreadMessageTitleIndicator
    /\ nextTimerId = 2
    /\ liveTimers = {1}

\* C20: the update cascade terminates: after mount or any single update at
\* most two re-updates run before componentDidUpdate issues no further
\* setState.
UpdateCascadeTerminates ==
    /\ cascade <= 2
    /\ cascade < MaxCascade
    /\ (phase = "mounted" /\ ~Idle) => ENABLED FlushSetState

\* the longest cascade: mount merges the plugins, the first re-update asks to
\* latch the connection, and the second, still seeing the previous state, asks
\* for the same value again, which React drops without a further update
UpdateCascadeTerminates_Witness ==
    /\ phase = "mounted"
    /\ event = "Mount"
    /\ cascade = 2
    /\ state.hadConnection
    /\ pending = [NoPartial EXCEPT !.hadConnection = <<TRUE>>]
    /\ ~ShallowDiffers(state, pending)

====
